---- MODULE Spec2Model ----
(***************************************************************************)
(* Model of helius_export.py: the paginated fetcher                        *)
(* (request_with_retries, fetch_enriched_transactions), the movement       *)
(* decomposer, the self-transfer detector, the Bubblegum spam heuristic,   *)
(* the type classifier and the row builder.                                *)
(*                                                                         *)
(* Python values are tagged records: None is [t |-> "none"], an int is     *)
(* [t |-> "int", v |-> n], a str is [t |-> "str", v |-> <<characters>>], a *)
(* list is [t |-> "list", v |-> <<items>>].  A dict is a function whose    *)
(* DOMAIN is the set of keys that are present, so an absent key and a key  *)
(* holding None are different inputs, as they are for dict.get.            *)
(*                                                                         *)
(* Amounts: the code computes float quotients (lamports / 1e9,             *)
(* tokenAmount / 10 ** decimals).  The model keeps them exact, as a pair   *)
(* [w, n] standing for w + n * 1e-9 (whole units and billionths); float    *)
(* rounding is not modelled.                                               *)
(***************************************************************************)
EXTENDS Integers, Sequences, FiniteSets, TLC

VARIABLES
    \* ---- fetch_enriched_transactions / request_with_retries ----
    limit,          \* the limit argument
    transactions,   \* the accumulator list
    before,         \* the pagination cursor (a Python value)
    fetched,        \* the running count
    attempt,        \* HTTP attempts made so far by the current request_with_retries call
    last,           \* outcome of the most recent HTTP attempt
    requests,       \* number of request_with_retries calls made
    received,       \* history: every record of every list page received, in order
    fpc,            \* position in the fetch: "idle", "loop", "attempt", "done"
    result,         \* what fetch_enriched_transactions returned or raised
    \* ---- build_rows_for_wallet ----
    txs,            \* the fetched transaction list the row builder iterates over
    idx,            \* number of transactions already processed
    rows,           \* the output rows
    cuts,           \* history: Len(rows) after each processed transaction
    rpc,            \* position in the row builder: "idle", "rows", "done", "raised"
    \* ---- direct calls of the pure functions ----
    call,           \* the call: function name and arguments
    ret             \* its outcome: "pending", or the value returned or exception raised

fetchVars == <<limit, transactions, before, fetched, attempt, last, requests, received, fpc, result>>
rowVars == <<txs, idx, rows, cuts, rpc>>
callVars == <<call, ret>>
vars == <<limit, transactions, before, fetched, attempt, last, requests, received, fpc, result,
          txs, idx, rows, cuts, rpc, call, ret>>

(***************************************************************************)
(* Bounds of the model.                                                    *)
(***************************************************************************)
MaxPages == 3
MaxPageLen == 2
MaxLimit == 3
MaxTransfers == 2
MaxMoves == 2
MaxTxs == 2

(***************************************************************************)
(* Python values.                                                          *)
(***************************************************************************)
NoneV == [t |-> "none"]
IntV(n) == [t |-> "int", v |-> n]
StrV(s) == [t |-> "str", v |-> s]
ListV(s) == [t |-> "list", v |-> s]
DictV(d) == [t |-> "dict", v |-> d]
\* an int too large for the model's integers: hi * 10^6 + lo, with 0 <= lo < 10^6
BigV(hi, lo) == [t |-> "big", hi |-> hi, lo |-> lo]
\* construction-time marker for "this key is not in the dict"; never a value of a dict
AbsentV == [t |-> "absent"]

\* bool(x)
Truthy(x) ==
    CASE x.t = "none" -> FALSE
      [] x.t = "int" -> x.v # 0
      [] x.t = "str" -> Len(x.v) > 0
      [] x.t = "list" -> Len(x.v) > 0
      [] x.t = "big" -> x.hi # 0 \/ x.lo # 0
      [] OTHER -> TRUE

\* d.get(k) and d.get(k, default)
Get(d, k) == IF k \in DOMAIN d THEN d[k] ELSE NoneV
GetD(d, k, default) == IF k \in DOMAIN d THEN d[k] ELSE default
\* a or b
Or(a, b) == IF Truthy(a) THEN a ELSE b

\* the dict of the listed <<key, value>> pairs, without the keys whose value is AbsentV
DictOf(pairs) ==
    LET present == {i \in 1..Len(pairs) : pairs[i][2] # AbsentV}
    IN [k \in {pairs[i][1] : i \in present} |->
           pairs[CHOOSE i \in present : pairs[i][1] = k][2]]

Min(a, b) == IF a <= b THEN a ELSE b
Max(a, b) == IF a >= b THEN a ELSE b

\* s[:n] for a list s
PySlice(s, n) ==
    IF n >= 0 THEN SubSeq(s, 1, Min(n, Len(s)))
    ELSE SubSeq(s, 1, Max(0, Len(s) + n))

(***************************************************************************)
(* Strings: sequences of one-character strings.                            *)
(***************************************************************************)
UpperChars == <<"A","B","C","D","E","F","G","H","I","J","K","L","M",
                "N","O","P","Q","R","S","T","U","V","W","X","Y","Z">>
LowerChars == <<"a","b","c","d","e","f","g","h","i","j","k","l","m",
                "n","o","p","q","r","s","t","u","v","w","x","y","z">>
LowerChar(c) ==
    IF \E i \in 1..26 : UpperChars[i] = c
    THEN LowerChars[CHOOSE i \in 1..26 : UpperChars[i] = c] ELSE c
UpperChar(c) ==
    IF \E i \in 1..26 : LowerChars[i] = c
    THEN UpperChars[CHOOSE i \in 1..26 : LowerChars[i] = c] ELSE c
\* s.lower(), s.upper()
Lower(s) == [i \in 1..Len(s) |-> LowerChar(s[i])]
Upper(s) == [i \in 1..Len(s) |-> UpperChar(s[i])]
\* sub in s
Contains(sub, s) ==
    \E i \in 1..(Len(s) - Len(sub) + 1) : SubSeq(s, i, i + Len(sub) - 1) = sub

(***************************************************************************)
(* The upstream service, as the fetcher sees it.                           *)
(***************************************************************************)
Digits == <<"0","1","2","3","4","5","6","7","8","9">>
\* the signature of the k-th record of the history
Signature(k) == <<"s", Digits[(k \div 10) + 1], Digits[(k % 10) + 1]>>
\* what the "signature" key of a page's last record may hold
SigShapes == {"str", "absent", "none", "empty"}
SigValue(k, shape) ==
    CASE shape = "str" -> StrV(Signature(k))
      [] shape = "none" -> NoneV
      [] shape = "empty" -> StrV(<<>>)
      [] OTHER -> AbsentV
\* the k-th record of the history: a dict with a timestamp and, usually, a signature
Record(k, shape) ==
    DictOf(<< <<"timestamp", IntV(k)>>, <<"signature", SigValue(k, shape)>> >>)
\* a page of n records following the `have` already served; only the last
\* record's signature is read by the fetcher
Page(have, n, shape) ==
    [i \in 1..n |-> Record(have + i, IF i = n THEN shape ELSE "str")]

\* Outcomes of one HTTP attempt: an exception of requests, or a response.
ErrTexts == {"", "rate limited"}
Exceptions ==
    {[kind |-> k, status |-> 0, text |-> "", body |-> "n/a", n |-> 0, shape |-> "str"] :
        k \in {"ConnectionError", "Timeout"}}
ErrorResponses ==
    {[kind |-> "response", status |-> s, text |-> x, body |-> "object", n |-> 0, shape |-> "str"] :
        s \in {204, 404, 429, 500, 503}, x \in ErrTexts}
NonListResponses ==
    {[kind |-> "response", status |-> 200, text |-> "", body |-> b, n |-> 0, shape |-> "str"] :
        b \in {"object", "scalar", "invalid"}}
ListResponses ==
    {[kind |-> "response", status |-> 200, text |-> "", body |-> "list", n |-> m, shape |-> sh] :
        m \in 0..MaxPageLen, sh \in SigShapes}
Outcomes == Exceptions \cup ErrorResponses \cup NonListResponses \cup ListResponses
NoLast == [kind |-> "none", status |-> 0, text |-> "", body |-> "n/a", n |-> 0, shape |-> "str"]

(***************************************************************************)
(* request_with_retries                                                    *)
(***************************************************************************)
max_retries == 5

ServerErrorMut(status) == status >= 400
\* line 46: a response with this status raises requests.HTTPError inside the try
ServerError(status) == status >= 500

\* line 49: the attempt ended in an exception the except clause catches
Caught(o) ==
    \/ o.kind \in {"ConnectionError", "Timeout"}
    \/ o.kind = "response" /\ ServerError(o.status)

(***************************************************************************)
(* fetch_enriched_transactions                                             *)
(***************************************************************************)
Return(v) == [kind |-> "return", value |-> v, exc |-> "", status |-> 0, text |-> ""]
Raise(e, s, x) == [kind |-> "raise", value |-> <<>>, exc |-> e, status |-> s, text |-> x]
Pending == [kind |-> "pending", value |-> <<>>, exc |-> "", status |-> 0, text |-> ""]

\* line 64
LimitReached(n, lim) == n >= lim

StatusNotOkMut(status) == status >= 500
\* line 75
StatusNotOk(status) == status # 200

FetchReturnMut(acc, lim) == acc
\* line 85
FetchReturn(acc, lim) == PySlice(acc, lim)

\* line 78: not isinstance(batch, list) or len(batch) == 0
EndOfHistory(o) == o.body # "list" \/ o.n = 0

\* lines 63-65 and 85: the loop head finds the limit reached and the function returns
fetch_break ==
    /\ fpc = "loop"
    /\ LimitReached(fetched, limit)
    /\ fpc' = "done"
    /\ result' = Return(FetchReturn(transactions, limit))
    /\ UNCHANGED <<limit, transactions, before, fetched, attempt, last, requests, received>>
    /\ UNCHANGED <<rowVars, callVars>>

\* lines 66-74: the loop head goes on and calls request_with_retries
fetch_request ==
    /\ fpc = "loop"
    /\ ~LimitReached(fetched, limit)
    /\ fpc' = "attempt"
    /\ attempt' = 0
    /\ last' = NoLast
    /\ requests' = requests + 1
    /\ UNCHANGED <<limit, transactions, before, fetched, received, result>>
    /\ UNCHANGED <<rowVars, callVars>>

\* lines 40-52: one attempt ends in a caught exception; the loop sleeps and
\* goes round, or, the attempts used up, raises RuntimeError("Exhausted retries"),
\* which fetch_enriched_transactions does not catch
attempt_fails(o) ==
    /\ fpc = "attempt"
    /\ attempt < max_retries
    /\ Caught(o)
    /\ attempt' = attempt + 1
    /\ last' = o
    /\ IF attempt + 1 >= max_retries
       THEN fpc' = "done" /\ result' = Raise("RuntimeError", 0, "Exhausted retries")
       ELSE UNCHANGED <<fpc, result>>
    /\ UNCHANGED <<limit, transactions, before, fetched, requests, received>>
    /\ UNCHANGED <<rowVars, callVars>>

\* lines 48, 75-76: the response is returned and its status is not 200
response_error(o) ==
    /\ fpc = "attempt"
    /\ attempt < max_retries
    /\ ~Caught(o)
    /\ StatusNotOk(o.status)
    /\ attempt' = attempt + 1
    /\ last' = o
    /\ fpc' = "done"
    /\ result' = Raise("RuntimeError", o.status, o.text)
    /\ UNCHANGED <<limit, transactions, before, fetched, requests, received>>
    /\ UNCHANGED <<rowVars, callVars>>

\* line 77: resp.json() raises on a body that is not JSON
response_invalid(o) ==
    /\ fpc = "attempt"
    /\ attempt < max_retries
    /\ ~Caught(o)
    /\ ~StatusNotOk(o.status)
    /\ o.body = "invalid"
    /\ attempt' = attempt + 1
    /\ last' = o
    /\ fpc' = "done"
    /\ result' = Raise("ValueError", 0, "")
    /\ UNCHANGED <<limit, transactions, before, fetched, requests, received>>
    /\ UNCHANGED <<rowVars, callVars>>

\* lines 78-79 and 85: an empty or non-list page ends the loop
response_end(o) ==
    /\ fpc = "attempt"
    /\ attempt < max_retries
    /\ ~Caught(o)
    /\ ~StatusNotOk(o.status)
    /\ o.body # "invalid"
    /\ EndOfHistory(o)
    /\ attempt' = attempt + 1
    /\ last' = o
    /\ fpc' = "done"
    /\ result' = Return(FetchReturn(transactions, limit))
    /\ UNCHANGED <<limit, transactions, before, fetched, requests, received>>
    /\ UNCHANGED <<rowVars, callVars>>

\* lines 80-85: a non-empty list page is appended; the cursor is the last
\* record's signature, and a missing cursor ends the loop
response_page(o) ==
    /\ fpc = "attempt"
    /\ attempt < max_retries
    /\ ~Caught(o)
    /\ ~StatusNotOk(o.status)
    /\ o.body # "invalid"
    /\ ~EndOfHistory(o)
    /\ requests <= MaxPages
    /\ LET batch == Page(Len(received), o.n, o.shape)
           cursor == Get(batch[Len(batch)], "signature")
       IN /\ transactions' = transactions \o batch
          /\ received' = received \o batch
          /\ fetched' = fetched + Len(batch)
          /\ before' = cursor
          /\ IF ~Truthy(cursor)
             THEN fpc' = "done" /\ result' = Return(FetchReturn(transactions', limit))
             ELSE fpc' = "loop" /\ UNCHANGED result
    /\ attempt' = attempt + 1
    /\ last' = o
    /\ UNCHANGED <<limit, requests>>
    /\ UNCHANGED <<rowVars, callVars>>

RowsIdle == txs = <<>> /\ idx = 0 /\ rows = <<>> /\ cuts = <<>> /\ rpc = "idle"
CallIdle == call = [fn |-> "none"] /\ ret = [kind |-> "idle"]
FetchIdle ==
    /\ limit = 0 /\ transactions = <<>> /\ before = NoneV /\ fetched = 0 /\ attempt = 0
    /\ last = NoLast /\ requests = 0 /\ received = <<>> /\ fpc = "idle" /\ result = Pending

\* the state on entry to fetch_enriched_transactions (lines 60-62)
InitFetch ==
    /\ limit \in -1..MaxLimit
    /\ transactions = <<>>
    /\ before = NoneV
    /\ fetched = 0
    /\ attempt = 0
    /\ last = NoLast
    /\ requests = 0
    /\ received = <<>>
    /\ fpc = "loop"
    /\ result = Pending
    /\ RowsIdle
    /\ CallIdle

NextFetch ==
    \/ fetch_break
    \/ fetch_request
    \/ \E o \in Outcomes : attempt_fails(o)
    \/ \E o \in Outcomes : response_error(o)
    \/ \E o \in Outcomes : response_invalid(o)
    \/ \E o \in Outcomes : response_end(o)
    \/ \E o \in Outcomes : response_page(o)

SpecFetch == InitFetch /\ [][NextFetch]_vars

(***************************************************************************)
(* Numbers.  A Python float that the code obtains as an integer divided by *)
(* a power of ten is kept exact: Float(w, n) stands for w + n * 1e-9, with *)
(* |n| < 10^9 and w, n of the same sign.                                   *)
(***************************************************************************)
Float(w, n) == [t |-> "float", w |-> w, n |-> n]
Giga == 1000000000
Zero == Float(0, 0)
RECURSIVE Pow10(_)
Pow10(k) == IF k <= 0 THEN 1 ELSE 10 * Pow10(k - 1)
Abs(i) == IF i < 0 THEN -i ELSE i
Sgn(i) == IF i < 0 THEN -1 ELSE IF i > 0 THEN 1 ELSE 0
\* raw / 10 ** p, for 0 <= p <= 9
Quot(raw, p) ==
    LET a == Abs(raw)
        d == Pow10(p)
    IN Float(Sgn(raw) * (a \div d), Sgn(raw) * ((a % d) * Pow10(9 - p)))
Neg(x) == Float(-x.w, -x.n)
Norm(w, n) ==
    LET w1 == w + Sgn(n) * (Abs(n) \div Giga)
        n1 == Sgn(n) * (Abs(n) % Giga)
    IN IF w1 > 0 /\ n1 < 0 THEN Float(w1 - 1, n1 + Giga)
       ELSE IF w1 < 0 /\ n1 > 0 THEN Float(w1 + 1, n1 - Giga)
       ELSE Float(w1, n1)
Add(x, y) == Norm(x.w + y.w, x.n + y.n)
\* -1, 0 or 1 as x < 0, x = 0 or x > 0
Sign(x) == IF x.w # 0 THEN Sgn(x.w) ELSE Sgn(x.n)
\* a Python number as a Float
AsFloat(x) == IF x.t = "int" THEN Float(x.v, 0) ELSE x
\* sum(...) of a list of numbers
RECURSIVE SumOf(_)
SumOf(xs) == IF Len(xs) = 0 THEN Zero ELSE Add(AsFloat(Head(xs)), SumOf(Tail(xs)))
RECURSIVE Concat(_)
Concat(ss) == IF Len(ss) = 0 THEN <<>> ELSE Head(ss) \o Concat(Tail(ss))

\* int(x) raises TypeError on None (and on a list)
IntRaises(x) == x.t \notin {"int", "float"}
IntOf(x) == IF x.t = "int" THEN x.v ELSE 0
\* the list a loop iterates over: (tx.get(key, []) or [])
Items(d, key) ==
    LET x == Or(GetD(d, key, ListV(<<>>)), ListV(<<>>)) IN x.v

(***************************************************************************)
(* String constants of the code.                                           *)
(***************************************************************************)
SOL == <<"S","O","L">>
TOKEN == <<"T","O","K","E","N">>
bubblegum == <<"b","u","b","b","l","e","g","u","m">>
swap == <<"s","w","a","p">>
nft == <<"n","f","t">>
nft_sale == <<"n","f","t","_","s","a","l","e">>
nft_mint == <<"n","f","t","_","m","i","n","t">>
stake == <<"s","t","a","k","e">>
unstake == <<"u","n","s","t","a","k","e">>
\* "BGUMApV3npVqfY3VhXv9Gqz3r3Gq5h5xQmYkYw2nVBoz"
BGUM1 ==
    <<"B","G","U","M","A","p","V","3","n","p","V","q","f","Y","3","V","h","X","v","9","G","q","z","3","r","3","G","q","5","h","5","x","Q","m","Y","k","Y","w","2","n","V","B","o","z">>
\* "BGUMAp7x2hAqHcC1EHnHCqB6fN5teLo75fW4rWuBbY"
BGUM2 ==
    <<"B","G","U","M","A","p","7","x","2","h","A","q","H","c","C","1","E","H","n","H","C","q","B","6","f","N","5","t","e","L","o","7","5","f","W","4","r","W","u","B","b","Y">>
BUBBLEGUM_PROGRAM_IDS == {BGUM1, BGUM2}

(***************************************************************************)
(* is_self_transfer                                                        *)
(***************************************************************************)
\* the addresses one transfer entry adds to addrs (lines 91-94, 96-99)
EntryAddrs(e) ==
    {Get(e, k).v : k \in {j \in {"fromUserAccount", "toUserAccount"} : Truthy(Get(e, j))}}
ListAddrs(es) == UNION {EntryAddrs(es[i]) : i \in 1..Len(es)}

SelfThresholdMut(inter) == Cardinality(inter) >= 3
\* line 101
SelfThreshold(inter) == Cardinality(inter) >= 2

is_self_transfer(our_wallets, tx) ==
    LET addrs == ListAddrs(Items(tx, "nativeTransfers")) \cup ListAddrs(Items(tx, "tokenTransfers"))
    IN SelfThreshold(addrs \cap our_wallets)

(***************************************************************************)
(* sum_amounts_relative_to_wallets                                         *)
(***************************************************************************)
\* x in our_wallets, for a Python value x and a set of strings
In(x, our_wallets) == x.t = "str" /\ x.v \in our_wallets

IncomingMut(our_wallets, from_acct, to_acct) == In(to_acct, our_wallets)
\* lines 115, 136
Incoming(our_wallets, from_acct, to_acct) ==
    In(to_acct, our_wallets) /\ ~In(from_acct, our_wallets)
\* lines 121, 142 (the elif: reached only when Incoming is false)
Outgoing(our_wallets, from_acct, to_acct) ==
    In(from_acct, our_wallets) /\ ~In(to_acct, our_wallets)

Movement(asset, mint, dec, amount, from_acct, to_acct) ==
    [asset |-> StrV(asset), mint |-> mint, decimals |-> IntV(dec), amount |-> amount,
     from_user |-> from_acct, to_user |-> to_acct]

\* lines 112-126: the movements one native transfer entry appends
NativeMovements(our_wallets, nt) ==
    LET lamports == IntOf(GetD(nt, "amount", IntV(0)))
        from_acct == Get(nt, "fromUserAccount")
        to_acct == Get(nt, "toUserAccount")
    IN IF Incoming(our_wallets, from_acct, to_acct)
       THEN <<Movement(SOL, NoneV, 9, Quot(lamports, 9), from_acct, to_acct)>>
       ELSE IF Outgoing(our_wallets, from_acct, to_acct)
       THEN <<Movement(SOL, NoneV, 9, Neg(Quot(lamports, 9)), from_acct, to_acct)>>
       ELSE <<>>

\* line 132: (tt.get("tokenSymbol") or mint or "TOKEN").upper()
TokenSym(tt) == Upper(Or(Get(tt, "tokenSymbol"), Or(Get(tt, "mint"), StrV(TOKEN))).v)

\* lines 129-147: the movements one token transfer entry appends
TokenMovements(our_wallets, tt) ==
    LET amt_raw == IntOf(GetD(tt, "tokenAmount", IntV(0)))
        dec == IntOf(Or(GetD(tt, "tokenDecimals", IntV(0)), IntV(0)))
        mint == Get(tt, "mint")
        from_acct == Get(tt, "fromUserAccount")
        to_acct == Get(tt, "toUserAccount")
        amount_adj == Quot(amt_raw, dec)
    IN IF Incoming(our_wallets, from_acct, to_acct)
       THEN <<Movement(TokenSym(tt), mint, dec, amount_adj, from_acct, to_acct)>>
       ELSE IF Outgoing(our_wallets, from_acct, to_acct)
       THEN <<Movement(TokenSym(tt), mint, dec, Neg(amount_adj), from_acct, to_acct)>>
       ELSE <<>>

FnReturn(v) == [kind |-> "return", value |-> v]
FnRaise(e) == [kind |-> "raise", exc |-> e]

\* lines 112, 129: int() of an amount that is present and None raises TypeError
SumAmountsRaises(tx) ==
    LET nts == Items(tx, "nativeTransfers")
        tts == Items(tx, "tokenTransfers")
    IN \/ \E i \in 1..Len(nts) : IntRaises(GetD(nts[i], "amount", IntV(0)))
       \/ \E i \in 1..Len(tts) : IntRaises(GetD(tts[i], "tokenAmount", IntV(0)))

\* the (movements, fee_lamports) pair returned, or the exception raised
sum_amounts_relative_to_wallets(our_wallets, tx) ==
    LET nts == Items(tx, "nativeTransfers")
        tts == Items(tx, "tokenTransfers")
        movements ==
            Concat([i \in 1..Len(nts) |-> NativeMovements(our_wallets, nts[i])])
            \o Concat([i \in 1..Len(tts) |-> TokenMovements(our_wallets, tts[i])])
        fee_lamports == IntOf(Or(Get(tx, "fee"), IntV(0)))
    IN IF SumAmountsRaises(tx) THEN FnRaise("TypeError")
       ELSE FnReturn([movements |-> movements, fee_lamports |-> fee_lamports])

(***************************************************************************)
(* get_primary_program_id, is_bubblegum_spam                               *)
(***************************************************************************)
get_primary_program_id(tx) ==
    LET pid == Or(Get(tx, "programId"), StrV(<<>>))
        instrs == Or(Get(tx, "instructions"), ListV(<<>>))
        pi == IF instrs.v[1].t = "dict" THEN Get(instrs.v[1].v, "programId") ELSE NoneV
    IN IF Truthy(pid) THEN pid
       ELSE IF instrs.t = "list" /\ Truthy(instrs) /\ pi.t = "str" THEN pi
       ELSE StrV(<<>>)

SpamThreshold == 10000
\* line 194: abs(sol_net) <= 0.00001, that is 10000 billionths
Negligible(x) == x.w = 0 /\ Abs(x.n) <= SpamThreshold

IsSolMovement(m) == Get(m, "asset") = StrV(SOL)
Amounts(ms) == [i \in 1..Len(ms) |-> GetD(ms[i], "amount", Zero)]

\* lines 187-189
IsBubblegum(tx) ==
    LET source == Lower(Or(Get(tx, "source"), StrV(<<>>)).v)
        pid == get_primary_program_id(tx)
    IN Contains(bubblegum, source) \/ pid.v \in BUBBLEGUM_PROGRAM_IDS

is_bubblegum_spam(tx, movements) ==
    IF ~IsBubblegum(tx) THEN FALSE
    ELSE Negligible(SumOf(Amounts(SelectSeq(movements, IsSolMovement))))

(***************************************************************************)
(* derive_transaction_type                                                 *)
(***************************************************************************)
IsNumber(x) == x.t \in {"int", "float"}
HasNumericAmount(m) == IsNumber(Get(m, "amount"))

derive_transaction_type_mut(tx, is_self, movements, spam_flag) ==
    IF is_self THEN "transfer_internal" ELSE IF spam_flag THEN "spam_cnft" ELSE "transfer"

derive_transaction_type(tx, is_self, movements, spam_flag) ==
    LET category == Lower(Or(Get(tx, "type"), StrV(<<>>)).v)
        source == Lower(Or(Get(tx, "source"), StrV(<<>>)).v)
        net == SumOf(Amounts(SelectSeq(movements, HasNumericAmount)))
    IN IF spam_flag THEN "spam_cnft"
       ELSE IF is_self THEN "transfer_internal"
       ELSE IF Contains(swap, source) \/ category = swap THEN "trade"
       ELSE IF category \in {nft, nft_sale, nft_mint} \/ Contains(nft, source) THEN "nft"
       ELSE IF Contains(stake, source) \/ category \in {stake, unstake} THEN "staking"
       ELSE IF Sign(net) > 0 THEN "income"
       ELSE IF Sign(net) < 0 THEN "spend"
       ELSE "transfer"

(***************************************************************************)
(* build_rows_for_wallet: the rows of one transaction (lines 226-271)      *)
(***************************************************************************)
Mega == 1000000
\* line 230: the timestamp in milliseconds; a value under 10**12 is taken as seconds
TimestampMs(tx) ==
    LET ts == Get(tx, "timestamp")
    IN IF Truthy(ts) /\ ts.hi < Mega
       THEN BigV(ts.hi * 1000 + ((ts.lo * 1000) \div Mega), (ts.lo * 1000) % Mega)
       ELSE GetD(tx, "timestamp", BigV(0, 0))
\* line 230: int(None) when the key is present and holds None
TimestampRaises(tx) == "timestamp" \in DOMAIN tx /\ tx["timestamp"].t = "none"
\* lines 36, 231: the ISO rendering of a millisecond count, one string per count;
\* the empty string for 0
\* (counts beyond datetime's range, year 9999, make line 36 raise ValueError;
\* the timestamps of the model stay within it)
IsoTs(ms) == IF Truthy(ms) THEN [t |-> "iso", ms |-> ms] ELSE StrV(<<>>)

BoolStr(b) == IF b THEN "true" ELSE "false"
FeeSol(fee_lamports) == IF fee_lamports # 0 THEN Quot(fee_lamports, 9) ELSE IntV(0)

NoMovementsMut(movements) == FALSE
\* line 235: if not movements
NoMovements(movements) == Len(movements) = 0

\* lines 236-252: the single row of a transaction without movements
EmptyRow(tx, fee_lamports, is_self, spam_flag, dtype) ==
    [timestamp |-> IsoTs(TimestampMs(tx)),
     txid |-> GetD(tx, "signature", StrV(<<>>)),
     program_id |-> get_primary_program_id(tx),
     program_source |-> Or(Get(tx, "source"), StrV(<<>>)),
     helius_type |-> Or(Get(tx, "type"), StrV(<<>>)),
     derived_type |-> dtype,
     asset |-> StrV(<<>>),
     amount |-> IntV(0),
     fee_sol |-> FeeSol(fee_lamports),
     is_self_transfer |-> BoolStr(is_self),
     spam_flag |-> BoolStr(spam_flag),
     from |-> StrV(<<>>),
     to |-> StrV(<<>>),
     description |-> <<"program=", Or(Get(tx, "source"), StrV(<<>>)),
                       " type=", Or(Get(tx, "type"), StrV(<<>>))>>,
     cost_basis_usd |-> ""]

\* lines 255-271: the row of one movement
MovementRow(tx, m, fee_lamports, is_self, spam_flag, dtype) ==
    [timestamp |-> IsoTs(TimestampMs(tx)),
     txid |-> GetD(tx, "signature", StrV(<<>>)),
     program_id |-> get_primary_program_id(tx),
     program_source |-> Or(Get(tx, "source"), StrV(<<>>)),
     helius_type |-> Or(Get(tx, "type"), StrV(<<>>)),
     derived_type |-> dtype,
     asset |-> GetD(m, "asset", StrV(<<>>)),
     amount |-> GetD(m, "amount", IntV(0)),
     fee_sol |-> FeeSol(fee_lamports),
     is_self_transfer |-> BoolStr(is_self),
     spam_flag |-> BoolStr(spam_flag),
     from |-> GetD(m, "from_user", StrV(<<>>)),
     to |-> GetD(m, "to_user", StrV(<<>>)),
     description |-> <<"program=", Or(Get(tx, "source"), StrV(<<>>)),
                       " type=", Or(Get(tx, "type"), StrV(<<>>)),
                       " mint=", Get(m, "mint")>>,
     cost_basis_usd |-> ""]

\* lines 226-271: the rows one loop iteration appends, or the exception it raises
RowsForTx(our_wallets, tx) ==
    LET sa == sum_amounts_relative_to_wallets(our_wallets, tx)
        movements == sa.value.movements
        fee_lamports == sa.value.fee_lamports
        is_self == is_self_transfer(our_wallets, tx)
        spam_flag == is_bubblegum_spam(tx, movements)
        dtype == derive_transaction_type(tx, is_self, movements, spam_flag)
    IN IF sa.kind = "raise" THEN sa
       ELSE IF TimestampRaises(tx) THEN FnRaise("TypeError")
       ELSE IF NoMovements(movements)
       THEN FnReturn(<<EmptyRow(tx, fee_lamports, is_self, spam_flag, dtype)>>)
       ELSE FnReturn([j \in 1..Len(movements) |->
                MovementRow(tx, movements[j], fee_lamports, is_self, spam_flag, dtype)])

(***************************************************************************)
(* Inputs.                                                                 *)
(***************************************************************************)
W1 == <<"W","1">>
W2 == <<"W","2">>
X1 == <<"X","1">>
MintA == <<"m","i","n","t","A">>
\* the sequences over S of length at most n
SeqsUpTo(S, n) == UNION {[1..k -> S] : k \in 0..n}
\* the pairs of a native and a token transfer list with at most n entries together
ListPairs(NE, TE, n) ==
    UNION {UNION {[1..k -> NE] \X [1..j -> TE] : j \in 0..(n - k)} : k \in 0..n}

NativeEntry(from_acct, to_acct, amount) ==
    DictOf(<< <<"fromUserAccount", from_acct>>, <<"toUserAccount", to_acct>>,
              <<"amount", amount>> >>)
TokenEntry(from_acct, to_acct, amount, dec, sym, mint) ==
    DictOf(<< <<"fromUserAccount", from_acct>>, <<"toUserAccount", to_acct>>,
              <<"tokenAmount", amount>>, <<"tokenDecimals", dec>>,
              <<"tokenSymbol", sym>>, <<"mint", mint>> >>)
\* a transfer list under its key: a non-empty list, or what stands for an empty one
ListField(es, empty) == IF Len(es) = 0 THEN empty ELSE ListV(es)

\* ---- transactions for sum_amounts_relative_to_wallets and is_self_transfer ----
WalletSets == {{W1}, {W1, W2}}
FromOpts == {AbsentV, StrV(W1), StrV(W2), StrV(X1)}
ToOpts == {NoneV, StrV(W1), StrV(W2)}
\* every pair of endpoints with an amount, and an incoming entry without a usable one
NativeEntries ==
    {NativeEntry(f, t, IntV(7)) : f \in FromOpts, t \in ToOpts}
        \cup {NativeEntry(StrV(X1), StrV(W1), a) : a \in {AbsentV, NoneV}}
BaseShape == <<IntV(5), IntV(2), StrV(<<"u","s","d","c">>), StrV(MintA)>>
TokenShapes ==
    {BaseShape,
     <<AbsentV, IntV(2), StrV(<<"u","s","d","c">>), StrV(MintA)>>,
     <<NoneV, IntV(2), StrV(<<"u","s","d","c">>), StrV(MintA)>>,
     <<IntV(5), AbsentV, StrV(<<"u","s","d","c">>), StrV(MintA)>>,
     <<IntV(5), NoneV, StrV(<<"u","s","d","c">>), StrV(MintA)>>,
     <<IntV(5), IntV(2), AbsentV, StrV(MintA)>>,
     <<IntV(5), IntV(2), NoneV, NoneV>>,
     <<IntV(5), IntV(2), AbsentV, AbsentV>>,
     <<IntV(5), IntV(2), StrV(<<"s","o","l">>), StrV(MintA)>>}
TokenEnds == {<<NoneV, StrV(W1)>>, <<StrV(W1), StrV(W2)>>}
\* both pairs of endpoints with the full entry, and every shape on an incoming entry
TokenEntries ==
    {TokenEntry(e[1], e[2], BaseShape[1], BaseShape[2], BaseShape[3], BaseShape[4]) :
        e \in TokenEnds}
        \cup {TokenEntry(NoneV, StrV(W1), sh[1], sh[2], sh[3], sh[4]) : sh \in TokenShapes}
\* how an absent optional part shows: the key missing, the key holding None, or a value
Noise == {"absent", "none", "value"}
NoiseList(z) == IF z = "absent" THEN AbsentV ELSE IF z = "none" THEN NoneV ELSE ListV(<<>>)
NoiseFee(z) == IF z = "absent" THEN AbsentV ELSE IF z = "none" THEN NoneV ELSE IntV(5000)
TransferTx(ns, ts, z) ==
    DictOf(<< <<"nativeTransfers", ListField(ns, NoiseList(z))>>,
              <<"tokenTransfers", ListField(ts, NoiseList(z))>>,
              <<"fee", NoiseFee(z)>> >>)
\* every noise with the shorter lists, where it decides how an empty list shows;
\* with MaxTransfers entries only the fee differs, and it is given
TransferTxs ==
    {TransferTx(p[1], p[2], z) :
        p \in ListPairs(NativeEntries, TokenEntries, MaxTransfers - 1), z \in Noise}
        \cup {TransferTx(p[1], p[2], "value") :
                 p \in ListPairs(NativeEntries, TokenEntries, MaxTransfers)}

\* ---- labels ----
SourceOpts ==
    {AbsentV, NoneV,
     StrV(<<"S","Y","S","T","E","M","_","P","R","O","G","R","A","M">>),
     StrV(<<"J","U","P","I","T","E","R","_","S","W","A","P">>),
     StrV(<<"M","A","G","I","C","_","E","D","E","N","_","N","F","T">>),
     StrV(<<"S","T","A","K","E","_","P","R","O","G","R","A","M">>),
     StrV(<<"B","U","B","B","L","E","G","U","M">>),
     StrV(<<"B","u","b","b","l","e","g","u","m","_","S","w","a","p">>)}
TypeOpts ==
    {AbsentV, NoneV,
     StrV(<<"T","R","A","N","S","F","E","R">>),
     StrV(<<"S","W","A","P">>),
     StrV(<<"N","F","T","_","S","A","L","E">>),
     StrV(<<"N","f","t","_","M","i","n","t">>),
     StrV(<<"U","N","S","T","A","K","E">>)}
OtherProgram == <<"1","1","1","1","1","1","1","1","1","1","1","1","1","1","1","1","1","1","1","1","1","1","1","1","1","1","1","1","1","1","1","1">>
ProgramOpts == {AbsentV, NoneV, StrV(BGUM1), StrV(OtherProgram)}
InstrOpts ==
    {AbsentV, ListV(<<>>),
     ListV(<<DictV(DictOf(<< <<"programId", StrV(BGUM2)>> >>))>>),
     ListV(<<DictV(DictOf(<< <<"programId", AbsentV>> >>))>>),
     ListV(<<IntV(1)>>)}
LabelTx(source, type) == DictOf(<< <<"source", source>>, <<"type", type>> >>)
ProgramTx(source, pid, instrs) ==
    DictOf(<< <<"source", source>>, <<"programId", pid>>, <<"instructions", instrs>> >>)

\* ---- movement lists handed to the classifier and the spam heuristic ----
PlainMovement(asset, amount) == Movement(asset, NoneV, 9, amount, NoneV, NoneV)
ClassifierMovements ==
    {PlainMovement(SOL, a) : a \in {Float(0, 5), Float(-1, 0), Zero, NoneV}}
SpamMovements ==
    {PlainMovement(asset, a) :
        asset \in {SOL, <<"U","S","D","C">>},
        a \in {Float(0, SpamThreshold), Float(0, -(SpamThreshold + 1)), Float(0, 1)}}

(***************************************************************************)
(* Direct calls of the four pure functions.                                *)
(***************************************************************************)
Call(fn, our_wallets, tx, movements, is_self, spam_flag) ==
    [fn |-> fn, our_wallets |-> our_wallets, tx |-> tx, movements |-> movements,
     is_self |-> is_self, spam_flag |-> spam_flag]
SumCalls ==
    {Call("sum_amounts_relative_to_wallets", w, tx, <<>>, FALSE, FALSE) :
        w \in WalletSets, tx \in TransferTxs}
SelfCalls ==
    {Call("is_self_transfer", w, tx, <<>>, FALSE, FALSE) :
        w \in WalletSets, tx \in TransferTxs}
SpamCalls ==
    {Call("is_bubblegum_spam", {}, ProgramTx(src, pid, ins), ms, FALSE, FALSE) :
        src \in SourceOpts, pid \in ProgramOpts, ins \in InstrOpts,
        ms \in SeqsUpTo(SpamMovements, MaxMoves)}
DeriveCalls ==
    {Call("derive_transaction_type", {}, LabelTx(src, ty), ms, sf, sp) :
        src \in SourceOpts, ty \in TypeOpts, ms \in SeqsUpTo(ClassifierMovements, MaxMoves),
        sf \in BOOLEAN, sp \in BOOLEAN}

call_sum_amounts ==
    /\ call.fn = "sum_amounts_relative_to_wallets"
    /\ ret.kind = "pending"
    /\ ret' = sum_amounts_relative_to_wallets(call.our_wallets, call.tx)
    /\ UNCHANGED <<call, fetchVars, rowVars>>

call_is_self_transfer ==
    /\ call.fn = "is_self_transfer"
    /\ ret.kind = "pending"
    /\ ret' = FnReturn(is_self_transfer(call.our_wallets, call.tx))
    /\ UNCHANGED <<call, fetchVars, rowVars>>

call_is_bubblegum_spam ==
    /\ call.fn = "is_bubblegum_spam"
    /\ ret.kind = "pending"
    /\ ret' = FnReturn(is_bubblegum_spam(call.tx, call.movements))
    /\ UNCHANGED <<call, fetchVars, rowVars>>

call_derive_transaction_type ==
    /\ call.fn = "derive_transaction_type"
    /\ ret.kind = "pending"
    /\ ret' = FnReturn(derive_transaction_type(call.tx, call.is_self, call.movements,
                                               call.spam_flag))
    /\ UNCHANGED <<call, fetchVars, rowVars>>

InitCall ==
    /\ call \in SumCalls \cup SelfCalls \cup SpamCalls \cup DeriveCalls
    /\ ret = [kind |-> "pending"]
    /\ FetchIdle
    /\ RowsIdle

NextCall ==
    \/ call_sum_amounts
    \/ call_is_self_transfer
    \/ call_is_bubblegum_spam
    \/ call_derive_transaction_type

SpecCall == InitCall /\ [][NextCall]_vars

(***************************************************************************)
(* build_rows_for_wallet, from the point where the fetch has returned.     *)
(***************************************************************************)
\* line 290: the managed wallet set of the run
OurWallets == {W1, W2}

\* ---- a fetched list of one transaction, rich in labels and transfers ----
RowSources ==
    {NoneV,
     StrV(<<"S","Y","S","T","E","M","_","P","R","O","G","R","A","M">>),
     StrV(<<"J","U","P","I","T","E","R","_","S","W","A","P">>),
     StrV(<<"M","A","G","I","C","_","E","D","E","N","_","N","F","T">>),
     StrV(<<"S","T","A","K","E","_","P","R","O","G","R","A","M">>),
     StrV(<<"B","u","b","b","l","e","g","u","m">>)}
RowTypes ==
    {StrV(<<"T","R","A","N","S","F","E","R">>),
     StrV(<<"S","W","A","P">>),
     StrV(<<"N","F","T","_","S","A","L","E">>),
     StrV(<<"U","N","S","T","A","K","E">>)}
RowPrograms == {AbsentV, StrV(BGUM1)}
RowNativeEntries ==
    {NativeEntry(StrV(e[1]), StrV(e[2]), IntV(a)) :
        e \in {<<X1, W1>>, <<W1, X1>>, <<W1, W2>>, <<W2, W1>>},
        a \in {SpamThreshold, SpamThreshold + 1}}
RowTokenEntries ==
    {TokenEntry(StrV(X1), StrV(W1), IntV(1), IntV(5), StrV(<<"s","o","l">>), StrV(MintA)),
     TokenEntry(StrV(W1), StrV(X1), IntV(1), IntV(5), StrV(<<"s","o","l">>), StrV(MintA)),
     TokenEntry(StrV(X1), StrV(W2), IntV(5), IntV(2), StrV(<<"u","s","d","c">>), StrV(MintA))}
RichTx(source, type, pid, ns, ts) ==
    DictOf(<< <<"signature", StrV(Signature(1))>>, <<"timestamp", BigV(1700, 0)>>,
              <<"fee", IntV(5000)>>, <<"source", source>>, <<"type", type>>,
              <<"programId", pid>>,
              <<"nativeTransfers", ListV(ns)>>, <<"tokenTransfers", ListV(ts)>> >>)
RichTxs ==
    {RichTx(src, ty, pid, p[1], p[2]) :
        src \in RowSources, ty \in RowTypes, pid \in RowPrograms,
        p \in ListPairs(RowNativeEntries, RowTokenEntries, MaxTransfers)}

\* ---- a fetched list of several transactions ----
SmallTransfers ==
    {<< <<>>, <<>> >>,
     << <<NativeEntry(StrV(X1), StrV(W1), IntV(7))>>, <<>> >>,
     << <<NativeEntry(StrV(W1), StrV(X1), IntV(7))>>,
        <<TokenEntry(StrV(X1), StrV(W1), IntV(5), IntV(2), AbsentV, StrV(MintA))>> >>,
     << <<NativeEntry(StrV(X1), StrV(W1), NoneV)>>, <<>> >>}
\* signature, timestamp, fee
SmallMeta ==
    {<<StrV(Signature(1)), BigV(1700, 0), IntV(5000)>>,
     <<StrV(Signature(2)), BigV(1700000, 0), IntV(0)>>,
     <<AbsentV, AbsentV, AbsentV>>,
     <<StrV(Signature(3)), NoneV, NoneV>>}
SmallTx(m, p) ==
    DictOf(<< <<"signature", m[1]>>, <<"timestamp", m[2]>>, <<"fee", m[3]>>,
              <<"source", StrV(<<"S","Y","S","T","E","M","_","P","R","O","G","R","A","M">>)>>,
              <<"type", StrV(<<"T","R","A","N","S","F","E","R">>)>>,
              <<"nativeTransfers", ListV(p[1])>>, <<"tokenTransfers", ListV(p[2])>> >>)
SmallTxs == {SmallTx(m, p) : m \in SmallMeta, p \in SmallTransfers}

\* lines 225-271: one iteration of the loop over the fetched transactions
build_rows_step ==
    /\ rpc = "rows"
    /\ idx < Len(txs)
    /\ LET r == RowsForTx(OurWallets, txs[idx + 1])
       IN IF r.kind = "raise"
          THEN rpc' = "raised" /\ UNCHANGED <<idx, rows, cuts>>
          ELSE /\ rows' = rows \o r.value
               /\ idx' = idx + 1
               /\ cuts' = Append(cuts, Len(rows'))
               /\ UNCHANGED rpc
    /\ UNCHANGED <<txs, fetchVars, callVars>>

\* line 272: the loop is over and the rows are returned
build_rows_return ==
    /\ rpc = "rows"
    /\ idx = Len(txs)
    /\ rpc' = "done"
    /\ UNCHANGED <<txs, idx, rows, cuts, fetchVars, callVars>>

InitRows ==
    /\ txs \in {<<t>> : t \in RichTxs} \cup SeqsUpTo(SmallTxs, MaxTxs)
    /\ idx = 0
    /\ rows = <<>>
    /\ cuts = <<>>
    /\ rpc = "rows"
    /\ FetchIdle
    /\ CallIdle

NextRows ==
    \/ build_rows_step
    \/ build_rows_return

SpecRows == InitRows /\ [][NextRows]_vars

(***************************************************************************)
(* Properties of the fetcher (checked under SpecFetch).                    *)
(***************************************************************************)
\* an attempt that failed the transient way: connection failure, timeout or 5xx
Transient(o) ==
    \/ o.kind \in {"ConnectionError", "Timeout"}
    \/ o.kind = "response" /\ o.status \in 500..599
\* a response that is neither 2xx nor 5xx
Fatal(o) == o.kind = "response" /\ o.status \notin 200..299 /\ o.status \notin 500..599

\* C1: whenever fetch_enriched_transactions returns, it returns exactly the
\* first min(limit, N) of the N records received, in the order received; and a
\* page request is in progress only while fewer than limit records have been
\* accumulated, so no request is issued once the count has reached limit.
C1_ReturnsFirstLimitRecords ==
    /\ result.kind = "return" =>
          /\ Len(result.value) = Max(0, Min(limit, Len(received)))
          /\ \A i \in 1..Len(result.value) : result.value[i] = received[i]
    /\ fpc = "attempt" => Len(received) < limit

\* two pages were received, the second overshooting the limit, and the
\* result was cut to the limit
C1_Witness ==
    /\ result.kind = "return"
    /\ limit > 0
    /\ requests = 2
    /\ Len(received) > limit
    /\ Len(result.value) = limit

\* C2: a page request makes at most max_retries (5) attempts; a further attempt
\* is pending only after a connection failure, a timeout or a 5xx response; and
\* when the last attempt of a request failed that way, all max_retries attempts
\* were used and the fetch raised RuntimeError("Exhausted retries") instead of
\* returning the records accumulated so far.
C2_RetriesBoundedThenRaises ==
    /\ attempt <= 5
    /\ (fpc = "attempt" /\ attempt > 0) => Transient(last)
    /\ (fpc = "done" /\ Transient(last)) =>
          /\ attempt = 5
          /\ result.kind = "raise"
          /\ result.exc = "RuntimeError"
          /\ result.text = "Exhausted retries"

\* the retries ran out on a later page, with records already accumulated
C2_Witness ==
    /\ fpc = "done"
    /\ Transient(last)
    /\ attempt = 5
    /\ Len(transactions) > 0
    /\ result.kind = "raise"

\* C3: a page whose payload is a JSON object or another non-list value,
\* returned with status 200, makes fetch_enriched_transactions raise.
C3_MalformedPageRaises ==
    (last.kind = "response" /\ last.status = 200 /\ last.body \in {"object", "scalar"})
        => result.kind = "raise"

\* C4: once a page request has received a response that is neither 2xx nor
\* 5xx, the fetch is over: that response was not retried, no later page is
\* requested (no step of the fetcher is possible any more), and the fetch
\* raised an error carrying the response's status and body, not a list.
C4_FatalStatusRaisesAtOnce ==
    Fatal(last) =>
        /\ fpc = "done"
        /\ result.kind = "raise"
        /\ result.exc = "RuntimeError"
        /\ result.status = last.status
        /\ result.text = last.text
        /\ ~ENABLED NextFetch

\* a 404 on the second page, at the first attempt, with the first page accumulated
C4_Witness ==
    /\ Fatal(last)
    /\ last.status = 404
    /\ requests = 2
    /\ attempt = 1
    /\ Len(transactions) > 0
    /\ result.kind = "raise"

(***************************************************************************)
(* Properties of the pure functions (checked under SpecCall).              *)
(***************************************************************************)
DerivedTypes ==
    {"spam_cnft", "transfer_internal", "trade", "nft", "staking", "income", "spend", "transfer"}
\* a label as the rules read it: lower-cased, the empty string when absent or null
Label(tx, key) == IF key \in DOMAIN tx /\ tx[key].t = "str" THEN Lower(tx[key].v) ELSE <<>>
NumericAmounts(ms) ==
    LET Numeric(m) == m.amount.t \in {"int", "float"}
        ns == SelectSeq(ms, Numeric)
    IN [i \in 1..Len(ns) |-> ns[i].amount]

\* C6: derive_transaction_type returns the value of the first matching rule in
\* the order spam, self, swap, nft, stake, net > 0, net < 0, net = 0; so the
\* result is one of the eight types and an earlier rule wins over a later one.
C6_FirstMatchingRule ==
    (call.fn = "derive_transaction_type" /\ ret.kind # "pending") =>
        LET d == ret.value
            source == Label(call.tx, "source")
            category == Label(call.tx, "type")
            net == Sign(SumOf(NumericAmounts(call.movements)))
            r1 == call.spam_flag
            r2 == call.is_self
            r3 == Contains(swap, source) \/ category = swap
            r4 == category \in {nft, nft_sale, nft_mint} \/ Contains(nft, source)
            r5 == Contains(stake, source) \/ category \in {stake, unstake}
        IN /\ ret.kind = "return"
           /\ d \in DerivedTypes
           /\ r1 => d = "spam_cnft"
           /\ (~r1 /\ r2) => d = "transfer_internal"
           /\ (~r1 /\ ~r2 /\ r3) => d = "trade"
           /\ (~r1 /\ ~r2 /\ ~r3 /\ r4) => d = "nft"
           /\ (~r1 /\ ~r2 /\ ~r3 /\ ~r4 /\ r5) => d = "staking"
           /\ (~r1 /\ ~r2 /\ ~r3 /\ ~r4 /\ ~r5 /\ net > 0) => d = "income"
           /\ (~r1 /\ ~r2 /\ ~r3 /\ ~r4 /\ ~r5 /\ net < 0) => d = "spend"
           /\ (~r1 /\ ~r2 /\ ~r3 /\ ~r4 /\ ~r5 /\ net = 0) => d = "transfer"

\* the spam rule won over the self rule, a swap source and an nft category
C6_Witness ==
    /\ call.fn = "derive_transaction_type"
    /\ ret.kind = "return"
    /\ call.spam_flag
    /\ call.is_self
    /\ Contains(swap, Label(call.tx, "source"))
    /\ Label(call.tx, "type") = nft_sale
    /\ ret.value = "spam_cnft"

\* C7: none of the four functions raises, whatever fields are absent or null.
C7_NeverRaises == ret.kind # "raise"

\* the transfer entries of a transaction, native first
Entries(tx) == Items(tx, "nativeTransfers") \o Items(tx, "tokenTransfers")
RawAmount(e) ==
    IF "amount" \in DOMAIN e THEN e["amount"]
    ELSE IF "tokenAmount" \in DOMAIN e THEN e["tokenAmount"]
    ELSE IntV(0)
\* the endpoint is a string of the wallet set; a missing or null endpoint is not
Managed(w, e, key) == key \in DOMAIN e /\ e[key].t = "str" /\ e[key].v \in w

Segment(k) == SubSeq(rows, (IF k = 1 THEN 0 ELSE cuts[k - 1]) + 1, cuts[k])
\* the transfers are native transfers between two distinct managed wallets only
NativeSelfOnly(tx) ==
    LET nts == Items(tx, "nativeTransfers")
    IN /\ Len(Items(tx, "tokenTransfers")) = 0
       /\ Len(nts) > 0
       /\ \A i \in 1..Len(nts) :
             /\ Managed(OurWallets, nts[i], "fromUserAccount")
             /\ Managed(OurWallets, nts[i], "toUserAccount")
             /\ nts[i]["fromUserAccount"] # nts[i]["toUserAccount"]
\* the source carries the Bubblegum marker or the primary program id is allow-listed
BubblegumFamily(tx) ==
    \/ Contains(bubblegum, Label(tx, "source"))
    \/ get_primary_program_id(tx).v \in BUBBLEGUM_PROGRAM_IDS

RECURSIVE NativeNet(_, _)
NativeNet(w, nts) ==
    IF Len(nts) = 0 THEN 0
    ELSE LET e == Head(nts)
             a == RawAmount(e).v
         IN (IF Managed(w, e, "toUserAccount") /\ ~Managed(w, e, "fromUserAccount") THEN a
             ELSE IF Managed(w, e, "fromUserAccount") /\ ~Managed(w, e, "toUserAccount") THEN -a
             ELSE 0) + NativeNet(w, Tail(nts))

\* C9: the spam flag of a transaction is true iff it is of the Bubblegum family
\* (marker in the source, or allow-listed program id) and the net of its
\* native-currency movements is at most 10,000 lamports in absolute value;
\* only native-currency movements count.
C9_SpamIffNegligibleNativeNet ==
    \A k \in 1..idx :
        \A j \in 1..Len(Segment(k)) :
            Segment(k)[j].spam_flag =
                BoolStr(/\ BubblegumFamily(txs[k])
                        /\ Abs(NativeNet(OurWallets, Items(txs[k], "nativeTransfers")))
                               <= 10000)

====
